---- MODULE Spec2Model ----
(***************************************************************************)
(* DynamicArray<T, SimpleAllocator<T>> of                                  *)
(* include/algorithmCollection/data structures/dynamicArray.h, with T an   *)
(* int-like element type (trivial destructor, as in the tests).            *)
(*                                                                         *)
(* Every public operation is one atomic step (the class is single-threaded *)
(* and synchronous).  An array carries m_size ("size"), m_capacity ("cap"),*)
(* the ArrayDeleter stored in the unique_ptr m_data ("del") and, as        *)
(* allocator bookkeeping, the number of slots of the buffer m_data refers  *)
(* to ("n": the argument of the allocate call that produced it, 0 for      *)
(* nullptr).  "elems" are the values an observer reads through operator[]  *)
(* at indices 0..m_size-1.                                                 *)
(*                                                                         *)
(* Not part of the state: m_original_capacity and ArrayDeleter::m_capacity *)
(* (never read except as the size argument of SimpleAllocator::deallocate, *)
(* which ignores it) and the address of a buffer (m_data is a unique_ptr   *)
(* and every allocate returns fresh storage, so two live arrays never      *)
(* share one; whether a call installed newly allocated storage is kept in  *)
(* the call record).  "lim" holds the bounds of the specification in use.  *)
(*                                                                         *)
(* Spec drives one array with every mutating operation, SpecPair two       *)
(* arrays with copies, moves and swaps, SpecErr one array with element     *)
(* access added and an allocator that may fail with std::bad_alloc (in     *)
(* Spec and SpecPair every allocation succeeds).  SpecCmp compares two     *)
(* arrays built from initializer lists, SpecPush pushes to one array and   *)
(* counts in "moves" the elements its reallocations transfer, and SpecList *)
(* drives a DoubleLinkedList ("list"; "want" is the sequence of elements   *)
(* the calls made so far describe).                                        *)
(*                                                                         *)
(* Memory outside an allocated buffer is foreign: a store to a slot index  *)
(* >= n leaves an arbitrary value there and a load from it returns an      *)
(* arbitrary value (undefined behaviour), and the step records it in the   *)
(* call record "last".  The same holds for the overlapping                 *)
(* std::uninitialized_move calls, whose result is either the memmove       *)
(* result or the result of a forward element-by-element loop.              *)
(***************************************************************************)
EXTENDS Integers, Sequences, FiniteSets, TLC

\* Bounds of the model: the largest size and capacity an operation may produce
MaxLen == 3
MaxCap == 4
PairLen == 2
PairCap == 2
ErrLen == 2
ErrCap == 3
CmpLen == 2
PushN == 9
PushCap == 16
ListLen == 4

\* Element values.  No operation inspects an element (they are only copied,
\* moved, constructed and destroyed), so two distinguishable values show every
\* misplaced, lost or duplicated element; 0 is the value-initialised T.
Values == {0, 1}
Arrs == {"a", "b"}

Max(x, y) == IF x >= y THEN x ELSE y

VARIABLES arr, last, pushOnly, lim, moves, list, want
vars == <<arr, last, pushOnly, lim, moves, list, want>>
\* what a call on a DynamicArray leaves alone
others == <<lim, moves, list, want>>

----------------------------------------------------------------------------
\* ArrayDeleter
DefaultDeleter == [size |-> 0, nd |-> 0]
Deleter(s) == [size |-> s, nd |-> 0]

\* m_num_destroyed == m_size - 1 in size_t arithmetic; since m_num_destroyed + 1
\* does not wrap this is m_num_destroyed + 1 == m_size.
DeleterFrees(d) == d.nd + 1 = d.size

NoFlags == [oob |-> FALSE, uaf |-> FALSE, dfree |-> FALSE, leak |-> FALSE,
            ddes |-> FALSE, newbuf |-> FALSE]
Or(f, g) == [oob |-> f.oob \/ g.oob, uaf |-> f.uaf \/ g.uaf,
             dfree |-> f.dfree \/ g.dfree, leak |-> f.leak \/ g.leak,
             ddes |-> f.ddes \/ g.ddes,
             newbuf |-> f.newbuf \/ g.newbuf]
Oob(b) == [NoFlags EXCEPT !.oob = b]
NewBuf(b) == [NoFlags EXCEPT !.newbuf = b]

\* ArrayDeleter::operator()(data) on a buffer of n slots; freed tells whether
\* the buffer was already passed to deallocate.
CallDeleter(d, n, freed) ==
    IF n = 0 THEN NoFlags
    ELSE [NoFlags EXCEPT
          !.oob   = d.size > n,
          !.uaf   = freed /\ d.size > 0,
          !.dfree = freed /\ DeleterFrees(d),
          !.leak  = ~freed /\ ~DeleterFrees(d)]

\* SimpleAllocator::allocate(n) returns nullptr exactly for n = 0: the pointer of
\* an array is null iff its buffer has no slots
IsNull(A) == A.n = 0

\* The state of a default-constructed array, and of storage with no object
EmptyArray == [alive |-> TRUE, size |-> 0, cap |-> 0,
               n |-> 0, elems |-> <<>>, del |-> DefaultDeleter]
NoArray == [EmptyArray EXCEPT !.alive = FALSE]

\* The state of a default-constructed DoubleLinkedList: no node, head and tail
\* null (0), m_size 0; "up" tells that the program is still running
EmptyList == [nodes |-> <<>>, head |-> 0, tail |-> 0, size |-> 0, up |-> TRUE]

\* a growth policy that adds one slot instead of doubling
GrowCapByOne(c) == c + 1
\* capacity growth of push_back, insert and emplace
GrowCap(c) == IF c = 0 THEN 1 ELSE c * 2
\* capacity growth of push_front
GrowCapFront(c) == Max(1, c * 2)

\* all sequences whose k-th element is drawn from ps[k]
Choices(ps) ==
    IF \A k \in 1..Len(ps) : Cardinality(ps[k]) = 1
    THEN { [k \in 1..Len(ps) |-> CHOOSE e \in ps[k] : TRUE] }
    ELSE { s \in [1..Len(ps) -> Values] : \A k \in 1..Len(ps) : s[k] \in ps[k] }
\* what a load of slot k (1-based) of A's buffer can return
Rd(A, k) == IF k <= A.n THEN {A.elems[k]} ELSE Values
\* what slot k of a buffer of n slots holds after storing a value of S there
Put(n, k, S) == IF k <= n THEN S ELSE Values
\* slots lo..hi (1-based, inclusive) are touched: is one outside a buffer of n slots
Outside(n, lo, hi) == lo <= hi /\ hi > n

Seqs(L) == UNION {[1..m -> Values] : m \in 0..L}

\* the record of the latest call: operation, receiver, argument array, the
\* exception thrown and the memory errors committed
CallRec(op, x, y, err, f) ==
    [op |-> op, who |-> x, other |-> y, err |-> err, f |-> f]

Within(A) == A.size <= lim.len /\ A.cap <= lim.cap /\ A.n <= lim.cap

\* a call on x that returns normally with outcome o
Step(x, o, rec, po) ==
    /\ Within(o.a)
    /\ arr' = [arr EXCEPT ![x] = o.a]
    /\ last' = rec
    /\ pushOnly' = [pushOnly EXCEPT ![x] = po]
    /\ UNCHANGED others

\* a throw that comes after the elements were dropped
ThrowAfterDrop(x, rec) ==
    /\ arr' = [arr EXCEPT ![x] = [@ EXCEPT !.size = 0, !.elems = <<>>]]
    /\ last' = rec
    /\ pushOnly' = [pushOnly EXCEPT ![x] = FALSE]
    /\ UNCHANGED others
\* a call on x that throws before changing anything
Throw(x, rec) ==
    /\ last' = rec
    /\ pushOnly' = [pushOnly EXCEPT ![x] = FALSE]
    /\ UNCHANGED <<arr, others>>

Result(A, f) == [a |-> A, f |-> f]

----------------------------------------------------------------------------
\* push_back(const T&) and push_back(T&&)
PushBackOut(A, v) ==
    LET grow == A.size = A.cap
        ncap == IF grow THEN GrowCap(A.cap) ELSE A.cap
        nn   == IF grow THEN ncap ELSE A.n
        ps   == [k \in 1..(A.size + 1) |->
                   IF k <= A.size
                   THEN (IF grow THEN Put(nn, k, Rd(A, k)) ELSE {A.elems[k]})
                   ELSE Put(nn, k, {v})]
        fl   == Or([NoFlags EXCEPT
                       !.oob = (grow /\ Outside(A.n, 1, A.size)) \/ A.size + 1 > nn,
                       !.newbuf = grow],
                   IF grow THEN CallDeleter(Deleter(A.size), A.n, FALSE)
                   ELSE NoFlags)
    IN { Result([A EXCEPT !.size = A.size + 1, !.cap = ncap,
                          !.n = nn, !.elems = e,
                          !.del = IF grow THEN Deleter(A.size) ELSE A.del], fl)
         : e \in Choices(ps) }

PushBack(x, v) ==
    /\ arr[x].alive
    /\ \E o \in PushBackOut(arr[x], v) :
          Step(x, o, CallRec("push_back", x, "-", "none", o.f), pushOnly[x])

\* push_front(const T&)
PushFrontOut(A, v) ==
    LET grow == A.size + 1 > A.cap
        ncap == IF grow THEN GrowCapFront(A.cap) ELSE A.cap
        nn   == IF grow THEN ncap ELSE A.n
        \* result of a memmove-like shift (always the result when growing)
        shift == [k \in 1..(A.size + 1) |->
                    Put(nn, k, IF k = 1 THEN {v} ELSE Rd(A, k - 1))]
        \* result of the forward element-by-element loop over the overlapping ranges
        smear == [k \in 1..(A.size + 1) |->
                    Put(nn, k, IF k = 1 THEN {v} ELSE Rd(A, 1))]
        fl   == [NoFlags EXCEPT
                    !.oob = (grow /\ Outside(A.n, 1, A.size)) \/ A.size + 1 > nn,
                    !.newbuf = grow]
        es   == IF grow THEN Choices(shift) ELSE Choices(shift) \cup Choices(smear)
    IN { Result([A EXCEPT !.size = A.size + 1, !.cap = ncap,
                          !.n = nn, !.elems = e], fl)
         : e \in es }

PushFront(x, v) ==
    /\ arr[x].alive
    /\ \E o \in PushFrontOut(arr[x], v) :
          Step(x, o, CallRec("push_front", x, "-", "none", o.f), FALSE)

\* pop_back(): the last element is destroyed, and destroyed again by the loop
\* over the old buffer (i < m_size + 1 after the decrement)
PopBackOut(A) ==
    LET s  == A.size - 1
        ps == [k \in 1..s |-> Rd(A, k)]
        fl == [NoFlags EXCEPT !.oob = Outside(A.n, 1, A.size), !.ddes = TRUE,
                              !.newbuf = TRUE]
    IN { Result([A EXCEPT !.size = s, !.n = s, !.elems = e], fl)
         : e \in Choices(ps) }

PopBack(x) ==
    /\ arr[x].alive
    /\ IF arr[x].size = 0
       THEN Throw(x, CallRec("pop_back", x, "-", "logic_error", NoFlags))
       ELSE \E o \in PopBackOut(arr[x]) :
              Step(x, o, CallRec("pop_back", x, "-", "none", o.f), FALSE)

\* pop_front(): the first element is destroyed, and destroyed again by the loop
\* over the old buffer
PopFrontOut(A) ==
    LET s  == A.size - 1
        ps == [k \in 1..s |-> Rd(A, k + 1)]
        fl == [NoFlags EXCEPT !.oob = Outside(A.n, 1, A.size), !.ddes = TRUE,
                              !.newbuf = TRUE]
    IN { Result([A EXCEPT !.size = s, !.n = s, !.elems = e], fl)
         : e \in Choices(ps) }

\* pop_front without the empty() check
PopFrontNoCheck(x) ==
    /\ arr[x].alive
    /\ \E o \in (IF arr[x].size = 0 THEN {Result(arr[x], NoFlags)}
                 ELSE PopFrontOut(arr[x])) :
          Step(x, o, CallRec("pop_front", x, "-", "none", o.f), FALSE)
PopFront(x) ==
    /\ arr[x].alive
    /\ IF arr[x].size = 0
       THEN Throw(x, CallRec("pop_front", x, "-", "logic_error", NoFlags))
       ELSE \E o \in PopFrontOut(arr[x]) :
              Step(x, o, CallRec("pop_front", x, "-", "none", o.f), FALSE)

\* emplace(index, args...), reached through insert(index, const T&) and insert(index, T&&)
EmplaceOut(A, i, v) ==
    LET atcap == A.size = A.cap
        c1    == IF atcap THEN GrowCap(A.cap) ELSE A.cap
        ps    == [k \in 1..(A.size + 1) |->
                    Put(c1, k, IF k <= i THEN Rd(A, k)
                               ELSE IF k = i + 1 THEN {v} ELSE Rd(A, k - 1))]
        fl    == [NoFlags EXCEPT !.oob = Outside(A.n, 1, A.size) \/ A.size + 1 > c1,
                                 !.newbuf = TRUE]
    IN { Result([A EXCEPT !.size = A.size + 1, !.cap = c1 * 2,
                          !.n = c1, !.elems = e], fl)
         : e \in Choices(ps) }

Insert(x, i, v) ==
    /\ arr[x].alive
    /\ IF i > arr[x].size
       THEN Throw(x, CallRec("insert", x, "-", "out_of_range", NoFlags))
       ELSE \E o \in EmplaceOut(arr[x], i, v) :
              Step(x, o, CallRec("insert", x, "-", "none", o.f), FALSE)

\* insert(index, count, value)
InsertNOut(A, i, c, v) ==
    LET grow == A.size + c > A.cap
        ncap == IF grow THEN GrowCap(A.cap) ELSE A.cap
        nn   == IF grow THEN ncap ELSE A.n
        shift == [k \in 1..(A.size + c) |->
                    IF k <= i THEN (IF grow THEN Put(nn, k, Rd(A, k)) ELSE {A.elems[k]})
                    ELSE IF k <= i + c THEN Put(nn, k, {v})
                    ELSE Put(nn, k, Rd(A, k - c))]
        smear == [k \in 1..(A.size + c) |->
                    IF k <= i THEN {A.elems[k]}
                    ELSE IF k <= i + c THEN Put(nn, k, {v})
                    ELSE Put(nn, k, Rd(A, IF c = 0 THEN k ELSE i + 1 + ((k - i - c - 1) % c)))]
        fl   == [NoFlags EXCEPT
                    !.oob = IF grow
                            THEN \/ Outside(A.n, 1, A.size) \/ A.size + c > nn
                                 \/ Outside(A.n, i + 1, i + c)
                            ELSE Outside(nn, i + 1, A.size + c),
                    !.newbuf = grow]
        es   == IF grow THEN Choices(shift) ELSE Choices(shift) \cup Choices(smear)
    IN { Result([A EXCEPT !.size = A.size + c, !.cap = ncap,
                          !.n = nn, !.elems = e], fl)
         : e \in es }

InsertN(x, i, c, v) ==
    /\ arr[x].alive
    /\ IF i > arr[x].size
       THEN Throw(x, CallRec("insert_n", x, "-", "out_of_range", NoFlags))
       ELSE \E o \in InsertNOut(arr[x], i, c, v) :
              Step(x, o, CallRec("insert_n", x, "-", "none", o.f), FALSE)

\* reserve(new_capacity)
ReserveOut(A, k) ==
    IF k > A.cap
    THEN LET ps == [j \in 1..A.size |-> Put(k, j, Rd(A, j))]
             fl == Or([NoFlags EXCEPT
                          !.oob = Outside(A.n, 1, A.size) \/ Outside(k, 1, A.size),
                          !.newbuf = TRUE],
                      CallDeleter(A.del, A.n, TRUE))
         IN { Result([A EXCEPT !.cap = k, !.n = k, !.elems = e,
                               !.del = Deleter(A.size)], fl)
              : e \in Choices(ps) }
    ELSE { Result(A, NoFlags) }

Reserve(x, k) ==
    /\ arr[x].alive
    /\ \E o \in ReserveOut(arr[x], k) :
          Step(x, o, CallRec("reserve", x, "-", "none", o.f), FALSE)

\* emplace_back(args...)
EmplaceBackOut(A, v) ==
    LET rs == IF A.size = A.cap THEN ReserveOut(A, GrowCap(A.cap))
              ELSE { Result(A, NoFlags) }
    IN UNION { { Result([r.a EXCEPT !.size = A.size + 1, !.elems = Append(r.a.elems, w)],
                        Or(r.f, Oob(A.size + 1 > r.a.n)))
                 : w \in Put(r.a.n, A.size + 1, {v}) }
               : r \in rs }

EmplaceBack(x, v) ==
    /\ arr[x].alive
    /\ \E o \in EmplaceBackOut(arr[x], v) :
          Step(x, o, CallRec("emplace_back", x, "-", "none", o.f), FALSE)

\* shrink_to_fit()
ShrinkOut(A) ==
    IF A.cap > A.size
    THEN LET ps == [j \in 1..A.size |-> Rd(A, j)]
         IN { Result([A EXCEPT !.cap = A.size,
                               !.n = A.size, !.elems = e],
                     [NoFlags EXCEPT !.oob = Outside(A.n, 1, A.size), !.newbuf = TRUE])
              : e \in Choices(ps) }
    ELSE { Result(A, NoFlags) }

ShrinkToFit(x) ==
    /\ arr[x].alive
    /\ \E o \in ShrinkOut(arr[x]) :
          Step(x, o, CallRec("shrink_to_fit", x, "-", "none", o.f), FALSE)

\* the shrink that both erase overloads end with
ShrinkIfSparse(rs) ==
    UNION { IF r.a.size < r.a.cap \div 2
            THEN { Result(q.a, Or(r.f, q.f)) : q \in ShrinkOut(r.a) }
            ELSE { r }
            : r \in rs }

\* erase(first, last), with 0 <= f <= l <= size
EraseRangeOut(A, f, l) ==
    LET d  == l - f
        ps == [k \in 1..(A.size - d) |->
                 IF k <= f THEN {A.elems[k]} ELSE Put(A.n, k, Rd(A, k + d))]
    IN ShrinkIfSparse({ Result([A EXCEPT !.size = A.size - d, !.elems = e],
                               Oob(Outside(A.n, f + 1, A.size)))
                        : e \in Choices(ps) })

\* erase(index)
Erase(x, i) ==
    /\ arr[x].alive
    /\ IF i >= arr[x].size
       THEN Throw(x, CallRec("erase", x, "-", "out_of_range", NoFlags))
       ELSE \E o \in EraseRangeOut(arr[x], i, i + 1) :
              Step(x, o, CallRec("erase", x, "-", "none", o.f), FALSE)

EraseRange(x, f, l) ==
    /\ arr[x].alive
    /\ IF l > arr[x].size \/ f > l
       THEN Throw(x, CallRec("erase_range", x, "-", "out_of_range", NoFlags))
       ELSE \E o \in EraseRangeOut(arr[x], f, l) :
              Step(x, o, CallRec("erase_range", x, "-", "none", o.f), FALSE)

\* a clear that keeps m_capacity
ClearKeepsCapacity(A) ==
    Result([A EXCEPT !.size = 0, !.n = 0, !.elems = <<>>],
           Oob(Outside(A.n, 1, A.size)))
\* clear()
ClearOut(A) ==
    Result([A EXCEPT !.size = 0, !.cap = 0, !.n = 0, !.elems = <<>>],
           Oob(Outside(A.n, 1, A.size)))

Clear(x) ==
    /\ arr[x].alive
    /\ Step(x, ClearOut(arr[x]), CallRec("clear", x, "-", "none", ClearOut(arr[x]).f),
            FALSE)

\* resize(count, value)
ResizeOut(A, c, v) ==
    IF c < A.size
    THEN { Result([A EXCEPT !.size = c, !.elems = SubSeq(A.elems, 1, c)],
                  Oob(Outside(A.n, c + 1, A.size))) }
    ELSE IF c > A.size /\ c <= A.cap
    THEN LET ps == [k \in 1..c |-> IF k <= A.size THEN {A.elems[k]} ELSE Put(A.n, k, {v})]
         IN { Result([A EXCEPT !.size = c, !.elems = e], Oob(Outside(A.n, A.size + 1, c)))
              : e \in Choices(ps) }
    ELSE { Result([A EXCEPT !.size = c, !.cap = c, !.n = c,
                            !.elems = [k \in 1..c |-> v]],
                  [NoFlags EXCEPT !.oob = Outside(A.n, 1, A.size), !.newbuf = TRUE]) }

Resize(x, c, v) ==
    /\ arr[x].alive
    /\ \E o \in ResizeOut(arr[x], c, v) :
          Step(x, o, CallRec("resize", x, "-", "none", o.f), FALSE)

\* assign(count, value) and assign(first, last) / assign(initializer_list) share
\* the reallocation; vals are the values stored into slots 0..count-1
AssignRealloc(A, c) ==
    IF c > A.cap
    THEN Result([A EXCEPT !.cap = c, !.n = c],
                [NoFlags EXCEPT !.oob = Outside(A.n, 1, A.size), !.newbuf = TRUE])
    ELSE Result(A, NoFlags)

AssignOut(A, c, v) ==
    LET r  == AssignRealloc(A, c)
        ps == [k \in 1..c |-> Put(r.a.n, k, {v})]
    IN { Result([r.a EXCEPT !.size = c, !.elems = e], Or(r.f, Oob(Outside(r.a.n, 1, c))))
         : e \in Choices(ps) }

Assign(x, c, v) ==
    /\ arr[x].alive
    /\ \E o \in AssignOut(arr[x], c, v) :
          Step(x, o, CallRec("assign", x, "-", "none", o.f), FALSE)

AssignRangeOut(A, vals) ==
    LET c  == Len(vals)
        r  == AssignRealloc(A, c)
        ps == [k \in 1..c |-> Put(r.a.n, k, {vals[k]})]
    IN { Result([r.a EXCEPT !.size = c, !.elems = e],
                Or(r.f, Oob(Outside(r.a.n, 1, c) \/ A.size + 1 > r.a.n)))
         : e \in Choices(ps) }

AssignRange(x, vals) ==
    /\ arr[x].alive
    /\ \E o \in AssignRangeOut(arr[x], vals) :
          Step(x, o, CallRec("assign_range", x, "-", "none", o.f), FALSE)

----------------------------------------------------------------------------
\* a call that makes x a new object, or ends its lifetime
Make(x, A, rec, po) ==
    /\ Within(A)
    /\ arr' = [arr EXCEPT ![x] = A]
    /\ last' = rec
    /\ pushOnly' = [pushOnly EXCEPT ![x] = po]
    /\ UNCHANGED others

\* DynamicArray()
DefaultCtor(x) ==
    /\ ~arr[x].alive
    /\ Make(x, EmptyArray, CallRec("ctor", x, "-", "none", NoFlags), TRUE)

\* DynamicArray(size, alloc): size default-constructed elements
SizeCtorOut(s) ==
    [EmptyArray EXCEPT !.size = s, !.cap = s, !.n = s,
                       !.elems = [k \in 1..s |-> 0], !.del = Deleter(s)]

SizeCtor(x, s) ==
    /\ ~arr[x].alive
    /\ Make(x, SizeCtorOut(s),
            CallRec("ctor_size", x, "-", "none", NewBuf(TRUE)), FALSE)

\* DynamicArray(std::span<const T>, alloc) and DynamicArray(std::initializer_list<T>, alloc)
ValuesCtorOut(vals) ==
    [EmptyArray EXCEPT !.size = Len(vals), !.cap = Len(vals),
                       !.n = Len(vals),
                       !.elems = vals, !.del = Deleter(Len(vals))]

ValuesCtor(x, vals) ==
    /\ ~arr[x].alive
    /\ Make(x, ValuesCtorOut(vals),
            CallRec("ctor_values", x, "-", "none", NewBuf(TRUE)), FALSE)

\* ~DynamicArray(): the unique_ptr destructor runs the stored deleter
Destroy(x) ==
    /\ arr[x].alive
    /\ Make(x, NoArray,
            CallRec("dtor", x, "-", "none",
                    CallDeleter(arr[x].del, arr[x].n, FALSE)), FALSE)

----------------------------------------------------------------------------
\* a call on x that also reads or changes y
Step2(x, A, y, B, rec) ==
    /\ Within(A) /\ Within(B)
    /\ arr' = [arr EXCEPT ![x] = A, ![y] = B]
    /\ last' = rec
    /\ pushOnly' = [pushOnly EXCEPT ![x] = FALSE, ![y] = FALSE]
    /\ UNCHANGED others

\* DynamicArray(const DynamicArray& other)
CopyCtorOut(B) ==
    LET ps == [k \in 1..B.size |-> Rd(B, k)]
    IN { Result([EmptyArray EXCEPT !.size = B.size, !.cap = B.size,
                                   !.n = B.size,
                                   !.elems = e, !.del = Deleter(B.size)],
                [NoFlags EXCEPT !.oob = Outside(B.n, 1, B.size), !.newbuf = TRUE])
         : e \in Choices(ps) }

CopyCtor(x, y) ==
    /\ x # y /\ ~arr[x].alive /\ arr[y].alive
    /\ \E o \in CopyCtorOut(arr[y]) :
          Step2(x, o.a, y, arr[y], CallRec("copy_ctor", x, y, "none", o.f))

\* the state other is left in by the move constructor
MovedFromCtor(B) ==
    [B EXCEPT !.size = 0, !.cap = 0, !.n = 0, !.elems = <<>>]

\* DynamicArray(DynamicArray&& other)
MoveCtor(x, y) ==
    /\ x # y /\ ~arr[x].alive /\ arr[y].alive
    /\ Step2(x, arr[y], y, MovedFromCtor(arr[y]),
             CallRec("move_ctor", x, y, "none", NoFlags))

\* operator=(const DynamicArray& other)
CopyAssignOut(A, B) ==
    IF A.cap < B.size
    THEN LET ps == [k \in 1..B.size |-> Rd(B, k)]
         IN { Result([A EXCEPT !.size = B.size, !.cap = B.size,
                               !.n = B.size, !.elems = e],
                     [NoFlags EXCEPT
                         !.oob = Outside(B.n, 1, B.size) \/ Outside(A.n, 1, A.size),
                         !.newbuf = TRUE])
              : e \in Choices(ps) }
    ELSE LET ps == [k \in 1..B.size |-> Put(A.n, k, Rd(B, k))]
         IN { Result([A EXCEPT !.size = B.size, !.elems = e],
                     Oob(Outside(B.n, 1, B.size) \/ Outside(A.n, 1, Max(A.size, B.size))))
              : e \in Choices(ps) }

CopyAssign(x, y) ==
    /\ x # y /\ arr[x].alive /\ arr[y].alive
    /\ \E o \in CopyAssignOut(arr[x], arr[y]) :
          Step2(x, o.a, y, arr[y], CallRec("copy_assign", x, y, "none", o.f))

\* the state other is left in by the move assignment
MovedFromAssign(B) ==
    [B EXCEPT !.size = 0, !.n = 0, !.elems = <<>>]

\* operator=(DynamicArray&& other)
MoveAssign(x, y) ==
    /\ x # y /\ arr[x].alive /\ arr[y].alive
    /\ Step2(x, arr[y], y, MovedFromAssign(arr[y]),
             CallRec("move_assign", x, y, "none",
                     CallDeleter(arr[x].del, arr[x].n, FALSE)))

\* swap(DynamicArray& other)
Swap(x, y) ==
    /\ x # y /\ arr[x].alive /\ arr[y].alive
    /\ Step2(x, arr[y], y, arr[x], CallRec("swap", x, y, "none", NoFlags))

----------------------------------------------------------------------------
NoCall == [op |-> "init", who |-> "a", other |-> "-", err |-> "none", f |-> NoFlags]

\* the operations on one array
Ops(x) ==
    \/ \E v \in Values : PushBack(x, v)
    \/ \E v \in Values : EmplaceBack(x, v)
    \/ \E v \in Values : PushFront(x, v)
    \/ PopBack(x)
    \/ PopFront(x)
    \/ \E i \in 0..(arr[x].size + 1), v \in Values : Insert(x, i, v)
    \/ \E i \in 0..(arr[x].size + 1), c \in 0..(lim.len - arr[x].size), v \in Values :
          InsertN(x, i, c, v)
    \/ \E i \in 0..arr[x].size : Erase(x, i)
    \/ \E f \in 0..(arr[x].size + 1), l \in 0..(arr[x].size + 1) :
          l + 1 >= f /\ EraseRange(x, f, l)
    \/ \E k \in 0..lim.cap : Reserve(x, k)
    \/ ShrinkToFit(x)
    \/ Clear(x)
    \/ \E c \in 0..lim.len, v \in Values : Resize(x, c, v)
    \/ \E c \in 0..lim.len, v \in Values : Assign(x, c, v)
    \/ \E vals \in Seqs(lim.len) : AssignRange(x, vals)
    \/ Destroy(x)
    \/ DefaultCtor(x)
    \/ \E s \in 0..lim.len : SizeCtor(x, s)
    \/ \E vals \in Seqs(lim.len) : ValuesCtor(x, vals)

\* the operations that involve a second array
PairOps(x, y) ==
    \/ CopyCtor(x, y)
    \/ MoveCtor(x, y)
    \/ CopyAssign(x, y)
    \/ MoveAssign(x, y)
    \/ Swap(x, y)

\* one array, every operation on it
Init ==
    /\ arr = [y \in Arrs |-> IF y = "a" THEN EmptyArray ELSE NoArray]
    /\ last = NoCall
    /\ pushOnly = [y \in Arrs |-> y = "a"]
    /\ lim = [len |-> MaxLen, cap |-> MaxCap]
    /\ moves = 0
    /\ list = EmptyList
    /\ want = <<>>

Next == Ops("a")

Spec == Init /\ [][Next]_vars

\* two arrays
InitPair ==
    /\ arr = [y \in Arrs |-> EmptyArray]
    /\ last = NoCall
    /\ pushOnly = [y \in Arrs |-> TRUE]
    /\ lim = [len |-> PairLen, cap |-> PairCap]
    /\ moves = 0
    /\ list = EmptyList
    /\ want = <<>>

\* the operations the two arrays are driven with between copies, moves and swaps
CoreOps(x) ==
    \/ \E v \in Values : PushBack(x, v)
    \/ PopBack(x)
    \/ \E k \in 0..lim.cap : Reserve(x, k)
    \/ Destroy(x)
    \/ \E vals \in Seqs(lim.len) : ValuesCtor(x, vals)

NextPair ==
    \/ \E x \in Arrs : CoreOps(x)
    \/ \E x \in Arrs, y \in Arrs : PairOps(x, y)

SpecPair == InitPair /\ [][NextPair]_vars

----------------------------------------------------------------------------
\* Element access.  The reference returned is read by the caller.

\* at with the bound check index > m_size
AtInclusive(x, i) ==
    /\ arr[x].alive
    /\ IF i > arr[x].size
       THEN Throw(x, CallRec("at", x, "-", "out_of_range", NoFlags))
       ELSE Step(x, Result(arr[x], NoFlags),
                 CallRec("at", x, "-", "none", Oob(i + 1 > arr[x].n)), FALSE)
\* at(index)
At(x, i) ==
    /\ arr[x].alive
    /\ IF i >= arr[x].size
       THEN Throw(x, CallRec("at", x, "-", "out_of_range", NoFlags))
       ELSE Step(x, Result(arr[x], NoFlags),
                 CallRec("at", x, "-", "none", Oob(i + 1 > arr[x].n)), FALSE)

\* front()
Front(x) ==
    /\ arr[x].alive
    /\ IF arr[x].size = 0
       THEN Throw(x, CallRec("front", x, "-", "out_of_range", NoFlags))
       ELSE Step(x, Result(arr[x], NoFlags),
                 CallRec("front", x, "-", "none", Oob(1 > arr[x].n)), FALSE)

\* back()
Back(x) ==
    /\ arr[x].alive
    /\ IF arr[x].size = 0
       THEN Throw(x, CallRec("back", x, "-", "out_of_range", NoFlags))
       ELSE Step(x, Result(arr[x], NoFlags),
                 CallRec("back", x, "-", "none", Oob(arr[x].size > arr[x].n)), FALSE)

Reads(x) ==
    \/ \E i \in 0..arr[x].size : At(x, i)
    \/ Front(x)
    \/ Back(x)

----------------------------------------------------------------------------
\* Allocation failure.  SimpleAllocator::allocate(n) with n > 0 calls
\* ::operator new, which throws std::bad_alloc when no memory is left; the
\* exception leaves the member function at the allocate call, with the array
\* as the statements before that call left it.
Fail(x, A, op) ==
    /\ Within(A)
    /\ arr' = [arr EXCEPT ![x] = A]
    /\ last' = CallRec(op, x, "-", "bad_alloc", NoFlags)
    /\ pushOnly' = [pushOnly EXCEPT ![x] = FALSE]
    /\ UNCHANGED others

\* push_back: allocate is the first statement of the growth branch
PushBackOom(x) ==
    /\ arr[x].alive /\ arr[x].size = arr[x].cap
    /\ Fail(x, arr[x], "push_back")

\* emplace_back: reserve allocates before it changes anything
EmplaceBackOom(x) ==
    /\ arr[x].alive /\ arr[x].size = arr[x].cap
    /\ Fail(x, arr[x], "emplace_back")

\* push_front: m_capacity is doubled before the allocate call
PushFrontOom(x) ==
    /\ arr[x].alive /\ arr[x].size + 1 > arr[x].cap
    /\ Fail(x, [arr[x] EXCEPT !.cap = GrowCapFront(arr[x].cap)], "push_front")

\* emplace: m_capacity is doubled (at capacity) before allocate(m_capacity)
InsertOom(x, i) ==
    LET c1 == IF arr[x].size = arr[x].cap THEN GrowCap(arr[x].cap) ELSE arr[x].cap
    IN /\ arr[x].alive /\ i <= arr[x].size /\ c1 > 0
       /\ Fail(x, [arr[x] EXCEPT !.cap = c1], "insert")

\* insert(index, count, value): allocate is the first statement of the growth branch
InsertNOom(x, i, c) ==
    /\ arr[x].alive /\ i <= arr[x].size /\ arr[x].size + c > arr[x].cap
    /\ Fail(x, arr[x], "insert_n")

\* reserve: allocate is the first statement
ReserveOom(x, k) ==
    /\ arr[x].alive /\ k > arr[x].cap
    /\ Fail(x, arr[x], "reserve")

\* resize: allocate(count) is the first statement of the last branch
ResizeOom(x, c) ==
    /\ arr[x].alive /\ c > 0
    /\ ~(c < arr[x].size) /\ ~(c > arr[x].size /\ c <= arr[x].cap)
    /\ Fail(x, arr[x], "resize")

\* shrink_to_fit: allocate(m_size) is the first statement
ShrinkToFitOom(x) ==
    /\ arr[x].alive /\ arr[x].cap > arr[x].size /\ arr[x].size > 0
    /\ Fail(x, arr[x], "shrink_to_fit")

\* pop_back: the last element is destroyed and m_size decremented before
\* allocate(m_size)
PopBackOom(x) ==
    /\ arr[x].alive /\ arr[x].size > 1
    /\ Fail(x, [arr[x] EXCEPT !.size = arr[x].size - 1,
                              !.elems = SubSeq(arr[x].elems, 1, arr[x].size - 1)],
            "pop_back")

\* pop_front: the first element is destroyed and m_size decremented before
\* allocate(m_size); nothing has been shifted yet
PopFrontOom(x) ==
    /\ arr[x].alive /\ arr[x].size > 1
    /\ Fail(x, [arr[x] EXCEPT !.size = arr[x].size - 1,
                              !.elems = SubSeq(arr[x].elems, 1, arr[x].size - 1)],
            "pop_front")

OomOps(x) ==
    \/ PushBackOom(x)
    \/ EmplaceBackOom(x)
    \/ PushFrontOom(x)
    \/ \E i \in 0..arr[x].size : InsertOom(x, i)
    \/ \E i \in 0..arr[x].size, c \in 0..(lim.len - arr[x].size) : InsertNOom(x, i, c)
    \/ \E k \in 0..lim.cap : ReserveOom(x, k)
    \/ \E c \in 0..lim.len : ResizeOom(x, c)
    \/ ShrinkToFitOom(x)
    \/ PopBackOom(x)
    \/ PopFrontOom(x)

\* one array, every operation, element access, and an allocator that may fail
InitErr ==
    /\ arr = [y \in Arrs |-> IF y = "a" THEN EmptyArray ELSE NoArray]
    /\ last = NoCall
    /\ pushOnly = [y \in Arrs |-> y = "a"]
    /\ lim = [len |-> ErrLen, cap |-> ErrCap]
    /\ moves = 0
    /\ list = EmptyList
    /\ want = <<>>

NextErr ==
    \/ Ops("a")
    \/ Reads("a")
    \/ OomOps("a")

SpecErr == InitErr /\ [][NextErr]_vars
----------------------------------------------------------------------------
\* Comparison of two arrays.  "less", "equal", "greater" stand for the values of
\* std::strong_ordering.
Order(p, q) == IF p < q THEN "less" ELSE IF p > q THEN "greater" ELSE "equal"

\* std::mismatch(begin(), end(), rhs.begin()) on sequences of the same length:
\* the first (1-based) position where they differ, Len(s) + 1 (end()) if none
Mismatch(s, t) ==
    IF \E k \in 1..Len(s) : s[k] # t[k]
    THEN CHOOSE k \in 1..Len(s) : s[k] # t[k] /\ \A j \in 1..(k - 1) : s[j] = t[j]
    ELSE Len(s) + 1

\* operator<=>(rhs) on element sequences s (this) and t (rhs)
ThreeWay(s, t) ==
    IF Len(s) < Len(t) THEN "less"
    ELSE IF Len(s) > Len(t) THEN "greater"
    ELSE LET m == Mismatch(s, t)
         IN IF m = Len(s) + 1 THEN "equal" ELSE Order(s[m], t[m])

\* the results x <=> y can have: the elements are loaded from the buffers
CompareOut(A, B) ==
    { ThreeWay(s, t) : s \in Choices([k \in 1..A.size |-> Rd(A, k)]),
                       t \in Choices([k \in 1..B.size |-> Rd(B, k)]) }

\* the record of a comparison, with its result
CmpRec(x, y, r) ==
    [op |-> "compare", who |-> x, other |-> y, err |-> "none", f |-> NoFlags, res |-> r]

Compare(x, y) ==
    /\ arr[x].alive /\ arr[y].alive
    /\ \E r \in CompareOut(arr[x], arr[y]) : last' = CmpRec(x, y, r)
    /\ UNCHANGED <<arr, pushOnly, others>>

\* two arrays built from every pair of initializer lists, and compared
InitCmp ==
    /\ arr \in [Arrs -> { ValuesCtorOut(vals) : vals \in Seqs(CmpLen) }]
    /\ last = NoCall
    /\ pushOnly = [y \in Arrs |-> FALSE]
    /\ lim = [len |-> CmpLen, cap |-> CmpLen]
    /\ moves = 0
    /\ list = EmptyList
    /\ want = <<>>

NextCmp == \E x \in Arrs, y \in Arrs : Compare(x, y)

SpecCmp == InitCmp /\ [][NextCmp]_vars
----------------------------------------------------------------------------
\* Cost of growth: "moves" counts the elements that the reallocations of
\* push_back copy or move from the old buffer into the new one.

\* a push_back that reallocates on every call
PushBackMovesAlways(A) == A.size
\* the elements one push_back transfers: std::uninitialized_copy_n (or
\* uninitialized_move_n) of m_size elements, under m_size == m_capacity
PushBackMoves(A) == IF A.size = A.cap THEN A.size ELSE 0

PushBackCounted(x, v) ==
    /\ arr[x].alive
    /\ \E o \in PushBackOut(arr[x], v) :
          /\ Within(o.a)
          /\ arr' = [arr EXCEPT ![x] = o.a]
          /\ last' = CallRec("push_back", x, "-", "none", o.f)
    /\ moves' = moves + PushBackMoves(arr[x])
    /\ UNCHANGED <<pushOnly, lim, list, want>>

\* a default-constructed array that is only pushed to
InitPush ==
    /\ arr = [y \in Arrs |-> IF y = "a" THEN EmptyArray ELSE NoArray]
    /\ last = NoCall
    /\ pushOnly = [y \in Arrs |-> y = "a"]
    /\ lim = [len |-> PushN, cap |-> PushCap]
    /\ moves = 0
    /\ list = EmptyList
    /\ want = <<>>

NextPush == \E v \in Values : PushBackCounted("a", v)

SpecPush == InitPush /\ [][NextPush]_vars
----------------------------------------------------------------------------
\* DoubleLinkedList<T, SimpleAllocator<T>> of
\* include/algorithmCollection/data structures/double_linkedList.h.
\*
\* A node is identified by its position in "nodes" (its address; 0 is nullptr)
\* and carries data, next (the pointer held by the owning unique_ptr) and prev.
\* head and tail are unique_ptr<Node, std::function<void(Node*)>> members
\* initialised from nullptr: their deleter is an empty std::function, and
\* reset(p) on a non-null head or tail calls it, which throws
\* std::bad_function_call inside the noexcept reset: std::terminate ends the
\* program (up = FALSE).  end() and cend() return the tail node, not a position
\* past it.  The header constructs a node with construct(m_allocator, newNode,
\* value), which matches no constructor of Node; the node is taken as the
\* statements after the construct call leave it.

\* the node a new allocate + construct yields, appended to the heap of nodes
NewNode(L, v, nx, pv) == Append(L.nodes, [data |-> v, next |-> nx, prev |-> pv])

\* push_back(const data_type&) and push_back(data_type&&)
ListPushBackOut(L, v) ==
    LET id    == Len(L.nodes) + 1
        nodes == NewNode(L, v, 0, L.tail)
        \* head.reset(newNode) or tail.reset(newNode) on a non-null pointer
        dies  == L.tail # 0 \/ L.head # 0
    IN [nodes |-> IF L.tail # 0 THEN [nodes EXCEPT ![L.tail].next = id] ELSE nodes,
        head  |-> IF L.tail # 0 THEN L.head ELSE id,
        tail  |-> id,
        size  |-> IF dies THEN L.size ELSE L.size + 1,
        up    |-> ~dies]

\* push_front(const data_type&) and push_front(data_type&&)
ListPushFrontOut(L, v) ==
    LET id    == Len(L.nodes) + 1
        nodes == NewNode(L, v, L.head, 0)
        \* tail.reset(newNode) on a non-null tail; head was released or null
        dies  == L.head = 0 /\ L.tail # 0
    IN [nodes |-> IF L.head # 0 THEN [nodes EXCEPT ![L.head].prev = id] ELSE nodes,
        head  |-> id,
        tail  |-> IF L.head # 0 THEN L.tail ELSE id,
        size  |-> IF dies THEN L.size ELSE L.size + 1,
        up    |-> ~dies]

\* insert(const_iterator pos, const data_type& value); pos is a node of the list
ListInsertOut(L, pos, v) ==
    IF pos = L.head THEN ListPushFrontOut(L, v)
    ELSE IF pos = L.tail THEN ListPushBackOut(L, v)
    ELSE LET id == Len(L.nodes) + 1
             pv == L.nodes[pos].prev
             nodes == NewNode(L, v, L.nodes[pv].next, pv)
         IN [L EXCEPT !.nodes = [nodes EXCEPT ![pv].next = id, ![pos].prev = id],
                      !.size = L.size + 1]

\* the node cbegin() refers to after k increments
RECURSIVE NodeAt(_, _)
NodeAt(L, k) == IF k = 0 THEN L.head ELSE L.nodes[NodeAt(L, k - 1)].next

\* front().data, back().data and size()
ListFront(L) == L.nodes[L.head].data
ListBack(L) == L.nodes[L.tail].data
ListSize(L) == L.size

\* a call on the list; "want" is the sequence of the elements added so far,
\* as the calls place them
ListStep(op, L, w) ==
    /\ Len(w) <= ListLen
    /\ list' = L
    /\ want' = w
    /\ last' = CallRec(op, "l", "-", IF L.up THEN "none" ELSE "terminate", NoFlags)
    /\ UNCHANGED <<arr, pushOnly, lim, moves>>

ListPushBack(v) ==
    /\ list.up
    /\ ListStep("list_push_back", ListPushBackOut(list, v), Append(want, v))

ListPushFront(v) ==
    /\ list.up
    /\ ListStep("list_push_front", ListPushFrontOut(list, v), <<v>> \o want)

\* insert(it, v) with it == cbegin() advanced k times (0 <= k < size, or the
\* null cbegin() of the empty list): v is to be placed before the k-th element
ListInsertAt(k, v) ==
    /\ list.up
    /\ k = 0 \/ k < list.size
    /\ ListStep("list_insert", ListInsertOut(list, NodeAt(list, k), v),
                SubSeq(want, 1, k) \o <<v>> \o SubSeq(want, k + 1, Len(want)))

\* insert(cend(), v): v is to become the last element
ListInsertEnd(v) ==
    /\ list.up
    /\ ListStep("list_insert", ListInsertOut(list, list.tail, v), Append(want, v))

\* a default-constructed list that is only added to
InitList ==
    /\ arr = [y \in Arrs |-> NoArray]
    /\ last = NoCall
    /\ pushOnly = [y \in Arrs |-> FALSE]
    /\ lim = [len |-> ListLen, cap |-> ListLen]
    /\ moves = 0
    /\ list = EmptyList
    /\ want = <<>>

NextList ==
    \/ \E v \in Values : ListPushBack(v)
    \/ \E v \in Values : ListPushFront(v)
    \/ \E k \in 0..ListLen, v \in Values : ListInsertAt(k, v)
    \/ \E v \in Values : ListInsertEnd(v)

SpecList == InitList /\ [][NextList]_vars
----------------------------------------------------------------------------
\* the sequence s with v spliced in before 0-based position i
Splice(s, i, v) == SubSeq(s, 1, i) \o <<v>> \o SubSeq(s, i + 1, Len(s))
Pow2OrZero == {0} \cup {2^e : e \in 0..MaxCap}

\* C1: after every operation, 0 <= size <= capacity.
C1_SizeWithinCapacity ==
    \A x \in Arrs : arr[x].alive => 0 <= arr[x].size /\ arr[x].size <= arr[x].cap

\* C2: after every operation, capacity() is the number of slots of the buffer
\* the array owns (0 when it owns none).
C2_CapacityIsAllocatedSlots ==
    \A x \in Arrs : arr[x].alive => arr[x].cap = arr[x].n

\* C3: no operation constructs, reads, writes or destroys a slot outside the
\* buffer currently allocated to the array.
C3_NoAccessOutsideBuffer == ~last.f.oob

\* C4: after every operation, the buffer pointer is null iff capacity == 0.
C4_NullIffZeroCapacity ==
    \A x \in Arrs : arr[x].alive => (IsNull(arr[x]) <=> arr[x].cap = 0)

\* C5: move construction and move assignment give the destination the
\* source's size, capacity and elements and leave the source with size 0,
\* capacity 0 and a null buffer.
C5_MoveTransfersAndEmptiesSource ==
    [][\A x \in Arrs, y \in Arrs :
         (last'.op \in {"move_ctor", "move_assign"} /\ (MoveCtor(x, y) \/ MoveAssign(x, y))) =>
            /\ arr'[x].size = arr[y].size
            /\ arr'[x].cap = arr[y].cap
            /\ arr'[x].elems = arr[y].elems
            /\ arr'[y].size = 0 /\ arr'[y].cap = 0 /\ IsNull(arr'[y])]_vars

\* C6: copy construction and copy assignment leave the destination with the
\* source's size and elements in a buffer of its own; copy assignment keeps
\* its buffer and capacity when capacity >= source size, else it gets a fresh
\* buffer of capacity = source size; a later operation on one array leaves
\* the other unchanged.
C6_CopyIsDeepAndSized ==
    [][\A x \in Arrs, y \in Arrs :
         /\ (last'.op \in {"copy_ctor", "copy_assign"} /\ (CopyCtor(x, y) \/ CopyAssign(x, y))) =>
               /\ arr'[x].size = arr[y].size
               /\ arr'[x].elems = arr[y].elems
               /\ CopyCtor(x, y) => last'.f.newbuf
               /\ arr'[y] = arr[y]
         /\ (last'.op = "copy_assign" /\ CopyAssign(x, y)) =>
               IF arr[x].cap >= arr[y].size
               THEN arr'[x].cap = arr[x].cap /\ ~last'.f.newbuf
               ELSE arr'[x].cap = arr[y].size /\ arr'[x].n = arr[y].size
                    /\ last'.f.newbuf
         /\ (x # y /\ last'.who = x /\ last'.other = "-") => arr'[y] = arr[y]]_vars

\* C7: push_back at size == capacity sets capacity to max(1, 2 * capacity),
\* push_back at size < capacity keeps it; push_backs from an empty array take
\* capacity through 0, 1, 2, 4, ...
C7_PushBackGrowth ==
    /\ [](\A x \in Arrs : pushOnly[x] =>
             /\ arr[x].cap \in Pow2OrZero
             /\ arr[x].size <= arr[x].cap
             /\ arr[x].cap < 2 * Max(1, arr[x].size))
    /\ [][\A x \in Arrs, v \in Values :
            (last'.op = "push_back" /\ PushBack(x, v)) =>
               /\ arr[x].size = arr[x].cap => arr'[x].cap = Max(1, 2 * arr[x].cap)
               /\ arr[x].size < arr[x].cap => arr'[x].cap = arr[x].cap]_vars

C7_Witness ==
    /\ last.op = "push_back" /\ pushOnly["a"]
    /\ arr["a"].size = 3 /\ arr["a"].cap = 4

\* C8: push_back(x) yields the old sequence followed by x, size + 1.
C8_PushBackAppends ==
    [][\A x \in Arrs, v \in Values :
         (last'.op = "push_back" /\ PushBack(x, v)) =>
            /\ arr'[x].size = arr[x].size + 1
            /\ arr'[x].elems = Append(arr[x].elems, v)]_vars

\* C9: insert(begin() + i, x) with 0 <= i <= size yields the old sequence
\* with x spliced in at position i, size + 1.
C9_InsertSplices ==
    [][\A x \in Arrs, v \in Values, i \in 0..MaxLen :
         (last'.op = "insert" /\ i <= arr[x].size /\ Insert(x, i, v)) =>
            /\ arr'[x].size = arr[x].size + 1
            /\ arr'[x].elems = Splice(arr[x].elems, i, v)]_vars

\* C10: push_front(x) yields x followed by the old sequence, size + 1,
\* whether it grows the buffer or shifts in place.
C10_PushFrontPrepends ==
    [][\A x \in Arrs, v \in Values :
         (last'.op = "push_front" /\ PushFront(x, v)) =>
            /\ arr'[x].size = arr[x].size + 1
            /\ arr'[x].elems = <<v>> \o arr[x].elems]_vars

\* the sequence s without its elements at 0-based positions f .. l-1
Cut(s, f, l) == SubSeq(s, 1, f) \o SubSeq(s, l + 1, Len(s))

\* C11: erase(begin() + i) with 0 <= i < size removes exactly the element at
\* i: size - 1, the elements before i stay, those after i move down by one.
C11_EraseRemovesOne ==
    [][\A x \in Arrs, i \in 0..MaxLen :
         (last'.op = "erase" /\ i < arr[x].size /\ Erase(x, i)) =>
            /\ arr'[x].size = arr[x].size - 1
            /\ arr'[x].elems = Cut(arr[x].elems, i, i + 1)]_vars

C13_PopRemovesEdge ==
    [][\A x \in Arrs :
         /\ (last'.op = "pop_back" /\ arr[x].size > 0 /\ PopBack(x)) =>
               /\ arr'[x].size = arr[x].size - 1
               /\ arr'[x].elems = SubSeq(arr[x].elems, 1, arr[x].size - 1)
         /\ (last'.op = "pop_front" /\ arr[x].size > 0 /\ PopFront(x)) =>
               /\ arr'[x].size = arr[x].size - 1
               /\ arr'[x].elems = Tail(arr[x].elems)]_vars

\* C14: pop_back and pop_front on an array with size 0 throw std::logic_error
\* and remove nothing, in every empty state.
C14_PopOnEmptyThrows ==
    [][\A x \in Arrs :
         (/\ last'.op \in {"pop_back", "pop_front"} /\ arr[x].size = 0
          /\ (PopBack(x) \/ PopFront(x))) =>
            last'.err = "logic_error" /\ arr' = arr]_vars

C14_Witness ==
    /\ last.op = "pop_front" /\ last.err = "logic_error"
    /\ arr["a"].size = 0 /\ arr["a"].cap > 0

\* C15: at(i) throws out_of_range iff i >= size, insert/emplace iff the
\* position is > size, erase iff the position is >= size.  (A call of
\* insert(pos, count, value) is matched with the count it added; a throwing
\* call adds nothing, whatever its count.)
C15_IndexErrorsExact ==
    [][\A x \in Arrs, i \in 0..(ErrLen + 2) :
         /\ (last'.op = "at" /\ At(x, i)) =>
               last'.err = IF i >= arr[x].size THEN "out_of_range" ELSE "none"
         /\ (last'.op = "insert" /\ \E v \in Values : Insert(x, i, v)) =>
               last'.err = IF i > arr[x].size THEN "out_of_range" ELSE "none"
         /\ (/\ last'.op = "insert_n" /\ arr'[x].size >= arr[x].size
             /\ \E v \in Values : InsertN(x, i, arr'[x].size - arr[x].size, v)) =>
               last'.err = IF i > arr[x].size THEN "out_of_range" ELSE "none"
         /\ (last'.op = "erase" /\ Erase(x, i)) =>
               last'.err = IF i >= arr[x].size THEN "out_of_range" ELSE "none"]_vars

C15_Witness ==
    /\ last.op = "at" /\ last.err = "out_of_range" /\ arr["a"].size > 0

\* C16: when a call reports a bounds or empty-container error, size,
\* capacity, buffer and every element are what they were before the call.
C16_ErrorLeavesArrayUnchanged ==
    [][last'.err \in {"out_of_range", "logic_error"} => arr' = arr]_vars

C16_Witness ==
    /\ last.op = "erase_range" /\ last.err = "out_of_range" /\ arr["a"].size > 0

\* C17: when the allocator fails during an allocating operation the array is
\* left with the size, capacity and elements it had before the call.
C17_AllocFailureLeavesArrayUnchanged ==
    [][last'.err = "bad_alloc" => arr' = arr]_vars

\* C18: reserve(k) never decreases capacity: capacity becomes exactly k if
\* k > capacity, otherwise the call keeps buffer and capacity; size and all
\* elements are unchanged in both cases.
C18_ReserveKeepsElements ==
    [][\A x \in Arrs, k \in 0..MaxCap :
         (last'.op = "reserve" /\ Reserve(x, k)) =>
            /\ arr'[x].cap = IF k > arr[x].cap THEN k ELSE arr[x].cap
            /\ k <= arr[x].cap => arr'[x].n = arr[x].n /\ ~last'.f.newbuf
            /\ arr'[x].size = arr[x].size
            /\ arr'[x].elems = arr[x].elems]_vars

\* C19: after shrink_to_fit(), in any state, capacity == size and all
\* elements are unchanged; with capacity == size already the call changes
\* nothing.
C19_ShrinkToFitExact ==
    [][\A x \in Arrs :
         (last'.op = "shrink_to_fit" /\ ShrinkToFit(x)) =>
            /\ arr'[x].cap = arr[x].size
            /\ arr'[x].size = arr[x].size
            /\ arr'[x].elems = arr[x].elems
            /\ arr[x].cap = arr[x].size => arr'[x] = arr[x]]_vars

\* C20: after resize(count, value) size == count, the first min(old size,
\* count) elements are unchanged, every element from old size on equals
\* value, and capacity is unchanged if count <= old capacity, else count.
C20_ResizeKeepsPrefix ==
    [][\A x \in Arrs, c \in 0..MaxLen, v \in Values :
         (last'.op = "resize" /\ Resize(x, c, v)) =>
            /\ arr'[x].size = c
            /\ Len(arr'[x].elems) = c
            /\ \A k \in 1..c :
                  arr'[x].elems[k] = IF k <= arr[x].size THEN arr[x].elems[k] ELSE v
            /\ arr'[x].cap = IF c <= arr[x].cap THEN arr[x].cap ELSE c]_vars

\* C21: clear() called in any state leaves the array empty: size 0, capacity 0,
\* null buffer, no element, the buffer released once (neither freed twice nor
\* leaked); and the cleared array is usable again: a push_back on it grows the
\* capacity from 0 to 1 and stores its value inside the new buffer.
C21_ClearEmpties ==
    [][\A x \in {"a"} :
         (last'.op = "clear" /\ last'.who = x) =>
            /\ arr'[x].size = 0 /\ arr'[x].cap = 0
            /\ IsNull(arr'[x]) /\ arr'[x].elems = <<>>
            /\ ~last'.f.dfree /\ ~last'.f.leak /\ ~last'.f.uaf
            /\ \A v \in Values : \A o \in PushBackOut(arr'[x], v) :
                  /\ o.a.size = 1 /\ o.a.cap = 1 /\ o.a.n = 1
                  /\ o.a.elems = <<v>> /\ ~o.f.oob]_vars
\* a clear() of an array that held elements in a buffer has happened
C21_Witness ==
    /\ last.op = "clear" /\ last.err = "none"
    /\ arr["a"].size = 0 /\ arr["a"].cap = 0 /\ IsNull(arr["a"])
    /\ arr["a"].del.size > 0

\* the lexicographic order of two sequences: decided by the first position at
\* which they differ, and by the lengths when one is a prefix of the other
Lex(s, t) ==
    LET n == IF Len(s) < Len(t) THEN Len(s) ELSE Len(t)
    IN IF \E k \in 1..n : s[k] # t[k]
       THEN LET m == CHOOSE k \in 1..n : s[k] # t[k] /\ \A j \in 1..(k - 1) : s[j] = t[j]
            IN Order(s[m], t[m])
       ELSE Order(Len(s), Len(t))

\* C22: x <=> y is the lexicographic order of the elements of x and y: the first
\* differing position decides, the sizes decide only when one array is a proper
\* prefix of the other (or the arrays are equal).
C22_OrderingIsLexicographic ==
    [][\A x \in Arrs, y \in Arrs :
         (last'.op = "compare" /\ last'.who = x /\ last'.other = y) =>
            last'.res = Lex(arr[x].elems, arr[y].elems)]_vars

\* C23: in every reachable state and for every value v, push_back(v) followed
\* immediately by pop_back() gives back the size and the elements, in value and
\* order, that the array had before the two calls.
C23_PushPopInverse ==
    \A x \in {"a"} : arr[x].alive =>
       \A v \in Values : \A o \in PushBackOut(arr[x], v) : \A q \in PopBackOut(o.a) :
          q.a.size = arr[x].size /\ q.a.elems = arr[x].elems

\* C24: in every reachable state, for every index i with 0 <= i <= size and
\* every value v, insert(begin() + i, v) followed by erase(begin() + i) gives
\* back the original sequence of elements and the original size.
C24_InsertEraseInverse ==
    \A x \in {"a"} : arr[x].alive =>
       \A i \in 0..arr[x].size, v \in Values :
          \A o \in EmplaceOut(arr[x], i, v) : \A q \in EraseRangeOut(o.a, i, i + 1) :
             q.a.size = arr[x].size /\ q.a.elems = arr[x].elems

\* C25: every buffer obtained from allocate is passed to deallocate exactly
\* once: no call frees a buffer a second time, and no call (a growing push_back,
\* reserve, the destructor) drops a buffer without freeing it.
C25_BufferFreedOnce == ~last.f.dfree /\ ~last.f.leak

\* C26: the allocator calls on a buffer are ordered allocate, construct,
\* destroy, deallocate: no call destroys an element of a buffer it has already
\* deallocated, and no call destroys the same element twice.
C26_AllocatorCallOrder == ~last.f.uaf /\ ~last.f.ddes

\* C27: after N consecutive push_back calls on an initially empty array the
\* growth reallocations have transferred fewer than 2N elements in total, and a
\* push_back reallocates only when the size before it is 0 or a power of two.
C27_AmortizedGrowth ==
    [][last'.op = "push_back" =>
         /\ moves' < 2 * arr'["a"].size
         /\ last'.f.newbuf => arr["a"].size \in Pow2OrZero]_vars
\* nine push_backs have happened, the last one after the reallocation at size 8
C27_Witness ==
    /\ last.op = "push_back" /\ pushOnly["a"]
    /\ arr["a"].size = 9 /\ arr["a"].cap = 16 /\ moves = 15

\* C28: erase(first, last) fails with the invalid-range error exactly when the
\* bounds are inverted or lie outside the array; otherwise it removes exactly
\* the elements of [first, last), reduces the size by last - first and keeps the
\* other elements in their order (an empty range changes no element).
C28_RangeEraseExact ==
    [][\A x \in {"a"}, f \in 0..(MaxLen + 1), l \in 0..(MaxLen + 1) :
         (last'.op = "erase_range" /\ EraseRange(x, f, l)) =>
            IF f > l \/ l > arr[x].size
            THEN last'.err = "out_of_range"
            ELSE /\ last'.err = "none"
                 /\ arr'[x].size = arr[x].size - (l - f)
                 /\ arr'[x].elems = Cut(arr[x].elems, f, l)]_vars

\* the sequence s with c copies of v spliced in before 0-based position i
SpliceN(s, i, c, v) == SubSeq(s, 1, i) \o [k \in 1..c |-> v] \o SubSeq(s, i + 1, Len(s))

\* C30: insert(begin() + i, count, value) with 0 <= i <= size yields the
\* original sequence with count copies of value spliced in at position i,
\* increases the size by count and ends with capacity >= size, both when it
\* reallocates and when it shifts in place.
C30_InsertCountSplices ==
    [][\A x \in {"a"}, i \in 0..MaxLen, c \in 0..MaxLen, v \in Values :
         (last'.op = "insert_n" /\ i <= arr[x].size /\ InsertN(x, i, c, v)) =>
            /\ last'.err = "none"
            /\ arr'[x].size = arr[x].size + c
            /\ arr'[x].elems = SpliceN(arr[x].elems, i, c, v)
            /\ arr'[x].cap >= arr'[x].size]_vars

\* C29: after any sequence of push_back, push_front and insert(pos, value) on
\* an initially empty DoubleLinkedList every call has completed normally,
\* size() is the number of elements added, front() is the first and back() the
\* last element of the sequence the calls describe (push_back appends,
\* push_front prepends, insert places the value before pos, last at cend()).
C29_ListAddsInOrder ==
    last.op \in {"list_push_back", "list_push_front", "list_insert"} =>
       /\ last.err = "none" /\ list.up
       /\ ListSize(list) = Len(want)
       /\ ListFront(list) = want[1]
       /\ ListBack(list) = want[Len(want)]
====
